---- MODULE Spec2Model ----
(***************************************************************************)
(* Model of Envoy's ring hash load balancer                                *)
(* (source/common/upstream/ring_hash_lb.cc).                               *)
(*                                                                         *)
(*   Spec     - the concurrent life of one RingHashLoadBalancer: refresher *)
(*              threads run initialize()/refresh(), worker threads run     *)
(*              LoadBalancerFactoryImpl::create() and                      *)
(*              LoadBalancerImpl::chooseHost().                            *)
(*   SpecRing - Ring::Ring and Ring::chooseHost as pure functions, applied *)
(*              to every host sequence, configuration, hash function and   *)
(*              key within the bounds.                                     *)
(*   SpecSearch - the load balancer after initialize(), with the loop of   *)
(*              Ring::chooseHost run one pass at a time.                   *)
(*   SpecFair - the refresh() and create() calls under fair scheduling.    *)
(*   SpecBuffer - Ring::Ring run step by step with its scratch buffer.     *)
(***************************************************************************)
EXTENDS Integers, Sequences, FiniteSets, TLC

VARIABLES
  config_,        \* Optional<RingHashLbConfig> given to the constructor
  hash_fn,        \* [std |-> std::hash, xx |-> xxHash64], as tables over hash keys
  sort_ties,      \* how this build's std::sort orders entries of equal hash
  address_size,   \* host -> size of host->address()->asString()
  host_set,       \* the host set chooseHostSet() returns: [hosts, healthyHosts]
  initialized,    \* initialize() has registered the member update callback
  current_ring_,  \* factory_->current_ring_
  global_panic_,  \* factory_->global_panic_
  mutex_,         \* factory_->mutex_: [writer, readers]
  rpc,            \* refresher thread -> position inside refresh()
  rpanic,         \* refresher thread -> result of isGlobalPanic() in this call
  new_ring,       \* refresher thread -> local new_ring
  nrings,         \* number of rings refresh() calls have built so far
  last_locker,    \* generation of the refresh() that last took the write lock
  wpc,            \* worker thread -> position inside create()
  ring_to_use,    \* worker thread -> local ring_to_use
  lb,             \* worker thread -> its LoadBalancerImpl (ring_, global_panic_)
  result,         \* worker thread -> last chooseHost() call on its LoadBalancerImpl
  lb_healthy_panic_, \* stats_.lb_healthy_panic_
  search,         \* worker thread -> the locals of its Ring::chooseHost call
  t_hosts,        \* SpecRing: the host sequence handed to Ring::Ring
  t_ring,         \* SpecRing: the ring built from it
  t_result,       \* SpecRing: the last Ring::chooseHost call on it
  ctor            \* SpecBuffer: the locals of a Ring::Ring call in progress

vars == <<config_, hash_fn, sort_ties, host_set, initialized, current_ring_,
          global_panic_, mutex_, rpc, rpanic, new_ring, nrings, last_locker,
          wpc, ring_to_use, lb, result, lb_healthy_panic_, search,
          t_hosts, t_ring, t_result, address_size, ctor>>

conc_vars == <<host_set, initialized, current_ring_, global_panic_, mutex_, rpc,
               rpanic, new_ring, nrings, last_locker, wpc, ring_to_use, lb,
               result, lb_healthy_panic_, search>>

env_vars == <<config_, hash_fn, sort_ties, address_size>>

test_vars == <<t_hosts, t_ring, t_result, ctor>>

(***************************************************************************)
(* Bounds and program constants                                            *)
(***************************************************************************)
MaxHosts == 2          \* hosts are 1 .. MaxHosts
MaxHash == 2           \* hashes and keys are 0 .. MaxHash (stands for UINT64_MAX)
MaxMinRingSize == 3    \* configured minimum_ring_size is 1 .. MaxMinRingSize
MaxRefreshes == 2      \* refresh() calls per behaviour
MaxPanicCount == 1     \* cap on stats_.lb_healthy_panic_
MaxAddressSize == 107  \* longest address string (a sun_path holds 107 characters)

DefaultMinRingSize == 1024
MaxNeededSize == 128   \* std::min(128UL, ...)
IndexBufferSize == 32  \* the bytes set aside for the index, and itoa's buffer_size

Refreshers == {"r1", "r2"}
Workers == {"w1"}

NoThread == "nobody"
NullHost == 0          \* a null HostConstSharedPtr

Hosts == 1 .. MaxHosts
Hashes == 0 .. MaxHash

Max(a, b) == IF a >= b THEN a ELSE b
Min(a, b) == IF a <= b THEN a ELSE b
Range(s) == {s[i] : i \in DOMAIN s}

(***************************************************************************)
(* Configuration: Optional<envoy::api::v2::Cluster::RingHashLbConfig>.     *)
(* A wrapped protobuf field is either set (has_...) or absent.             *)
(***************************************************************************)
Config(valid, has_size, size, has_std, std) ==
  [valid |-> valid, has_minimum_ring_size |-> has_size, minimum_ring_size |-> size,
   has_use_std_hash |-> has_std, use_std_hash |-> std]

\* The configurations enumerated: a valid config with minimum_ring_size and
\* use_std_hash set.  (The default minimum_ring_size of 1024 is not enumerated.)
Configs ==
  {Config(TRUE, TRUE, s, TRUE, b) : s \in 1 .. MaxMinRingSize, b \in BOOLEAN}

MinRingSize(config) ==
  IF config.valid /\ config.has_minimum_ring_size
    THEN config.minimum_ring_size
    ELSE DefaultMinRingSize

UseStdHash(config) ==
  IF config.valid /\ config.has_use_std_hash THEN config.use_std_hash ELSE TRUE

(***************************************************************************)
(* Ring::Ring                                                              *)
(***************************************************************************)
\* A hash key is the byte string address + '_' + itoa(i).  The decimal digits
\* after the last '_' are i and what precedes it is the address, so the string
\* determines the pair <<host, i>> and the pair stands for the string (hosts
\* have distinct addresses).
HashKey(host, i) == <<host, i>>

HashKeys == Hosts \X (0 .. MaxMinRingSize - 1)

\* Faulty variant of HashesPerHost: the remainder is not rounded up.
HashesPerHostTruncated(n, min_ring_size) ==
  IF n < min_ring_size THEN min_ring_size \div n ELSE 1

\* uint64_t hashes_per_host = 1; if (hosts.size() < min_ring_size) ...
HashesPerHost(n, min_ring_size) ==
  IF n < min_ring_size
    THEN (min_ring_size \div n) + (IF (min_ring_size % n) # 0 THEN 1 ELSE 0)
    ELSE 1

HashOf(config, hashes, key) ==
  IF UseStdHash(config) THEN hashes.std[key] ELSE hashes.xx[key]

\* Faulty variant of PushReplicas: the index is not written after the '_', so
\* every replica of a host hashes the key of replica 0.
RECURSIVE PushReplicasSameKey(_, _, _, _, _, _)
PushReplicasSameKey(ring, host, i, hashes_per_host, config, hashes) ==
  IF i >= hashes_per_host
    THEN ring
    ELSE PushReplicasSameKey(
           Append(ring, [hash_ |-> HashOf(config, hashes, HashKey(host, 0)),
                         host_ |-> host]),
           host, i + 1, hashes_per_host, config, hashes)

\* for (i = 0; i < hashes_per_host; i++) ring_.push_back({hash, host})
RECURSIVE PushReplicas(_, _, _, _, _, _)
PushReplicas(ring, host, i, hashes_per_host, config, hashes) ==
  IF i >= hashes_per_host
    THEN ring
    ELSE PushReplicas(
           Append(ring, [hash_ |-> HashOf(config, hashes, HashKey(host, i)),
                         host_ |-> host]),
           host, i + 1, hashes_per_host, config, hashes)

\* for (const auto& host : hosts) ...
RECURSIVE PushHosts(_, _, _, _, _, _)
PushHosts(ring, hosts, j, hashes_per_host, config, hashes) ==
  IF j > Len(hosts)
    THEN ring
    ELSE PushHosts(PushReplicas(ring, hosts[j], 0, hashes_per_host, config, hashes),
                   hosts, j + 1, hashes_per_host, config, hashes)

\* std::sort with the comparator lhs.hash_ < rhs.hash_.  std::sort is not stable:
\* the relative order of entries of equal hash is whatever the library's
\* algorithm yields.  ties = "keep" leaves them in insertion order, "flip"
\* reverses them; the one in force is fixed for a build (sort_ties).
InsertEntry(sorted, e, ties) ==
  LET before == IF ties = "keep"
                  THEN {k \in DOMAIN sorted : sorted[k].hash_ <= e.hash_}
                  ELSE {k \in DOMAIN sorted : sorted[k].hash_ < e.hash_}
      p == Cardinality(before)
  IN SubSeq(sorted, 1, p) \o <<e>> \o SubSeq(sorted, p + 1, Len(sorted))

RECURSIVE SortFrom(_, _, _, _)
SortFrom(sorted, ring, k, ties) ==
  IF k > Len(ring) THEN sorted
  ELSE SortFrom(InsertEntry(sorted, ring[k], ties), ring, k + 1, ties)

\* Faulty variant of SortRing: the entries stay in the order they were pushed.
SortRingOmitted(ring, ties) == ring

SortRing(ring, ties) == SortFrom(<<>>, ring, 1, ties)

\* The constructor's result, the vector ring_.
RingCtor(config, hosts, hashes, ties) ==
  IF hosts = <<>>
    THEN <<>>
    ELSE LET min_ring_size == MinRingSize(config)
             hashes_per_host == HashesPerHost(Len(hosts), min_ring_size)
         IN SortRing(PushHosts(<<>>, hosts, 1, hashes_per_host, config, hashes), ties)

(***************************************************************************)
(* Ring::chooseHost                                                        *)
(***************************************************************************)
\* A LoadBalancerContext*: null, or a context whose computeHashKey() is an
\* Optional<uint64_t>.
Context(present, valid, key) == [present |-> present, hash_valid |-> valid, hash |-> key]

Contexts ==
  {Context(FALSE, FALSE, 0), Context(TRUE, FALSE, 0)}
    \cup {Context(TRUE, TRUE, k) : k \in Hashes}

\* The values random.random() can return that a call with this context can tell
\* apart: the generator is only asked when the context gives no hash key.
Randoms(context) ==
  IF context.present /\ context.hash_valid THEN {0} ELSE Hashes

\* const uint64_t h = hash.valid() ? hash.value() : random.random()
EffectiveKey(context, random) ==
  IF context.present /\ context.hash_valid THEN context.hash ELSE random

\* int64_t division truncates toward zero.
Half(x) == IF x >= 0 THEN x \div 2 ELSE -((-x) \div 2)

\* Faulty variant of SlotHolds: a key equal to the entry's hash is not matched.
SlotHoldsStrict(h, midval, midval1) == h < midval /\ h > midval1

\* if (h <= midval && h > midval1)
SlotHolds(h, midval, midval1) == h <= midval /\ h > midval1

\* Faulty variant of WrapHost: a search that falls off the ring finds no host.
WrapHostNull(ring) == NullHost

\* return ring_[0].host_ (C++ indices are 0-based, sequence indices 1-based)
WrapHost(ring) == ring[1].host_

RECURSIVE SearchLoop(_, _, _, _)
SearchLoop(ring, h, lowp, highp) ==
  LET midp == Half(lowp + highp) IN
  IF midp = Len(ring)
    THEN WrapHost(ring)
    ELSE LET midval == ring[midp + 1].hash_
             midval1 == IF midp = 0 THEN 0 ELSE ring[midp].hash_
         IN IF SlotHolds(h, midval, midval1)
              THEN ring[midp + 1].host_
              ELSE LET lowp2 == IF midval < h THEN midp + 1 ELSE lowp
                       highp2 == IF midval < h THEN highp ELSE midp - 1
                   IN IF lowp2 > highp2
                        THEN WrapHost(ring)
                        ELSE SearchLoop(ring, h, lowp2, highp2)

RingChooseHost(ring, context, random) ==
  IF ring = <<>>
    THEN NullHost
    ELSE SearchLoop(ring, EffectiveKey(context, random), 0, Len(ring))

\* Faulty variant of KeyEvaluated: the key is computed before the ring is looked at.
KeyEvaluatedBeforeEmptyCheck(ring, context) == context.present

\* whether a call evaluates context->computeHashKey(): not when it returns at
\* the test ring_.empty(), and not on a null context
KeyEvaluated(ring, context) == ring # <<>> /\ context.present

\* whether a call draws random.random(): not when it returns at the test
\* ring_.empty(), and not when the context gave a hash key
RandomDrawn(ring, context) ==
  ring # <<>> /\ ~(context.present /\ context.hash_valid)

(***************************************************************************)
(* Ring objects and the host set                                           *)
(***************************************************************************)
\* A RingConstSharedPtr: null, or a pointer to a Ring whose vector is ring_.
\* gen, hosts and panic are history, not program state: which construction made
\* the Ring (0: the constructor of the load balancer, n: the n-th ring built by
\* refresh()), the host vector it was given, and what isGlobalPanic() returned in
\* the refresh() call that built it.
RingPtr(gen, panic, hosts, entries) ==
  [null |-> FALSE, ring_ |-> entries, gen |-> gen, panic |-> panic, hosts |-> hosts]

NullRing ==
  [null |-> TRUE, ring_ |-> <<>>, gen |-> 0, panic |-> FALSE, hosts |-> <<>>]

\* bool global_panic_{} of LoadBalancerFactoryImpl
InitialGlobalPanic == FALSE

\* std::make_shared<Ring>(config_, hosts)
MakeRing(gen, panic, hosts) ==
  RingPtr(gen, panic, hosts, RingCtor(config_, hosts, hash_fn, sort_ties))

\* Host vectors: sequences of distinct hosts, in any order.
HostSeqs ==
  {s \in UNION {[1 .. n -> Hosts] : n \in 0 .. MaxHosts} :
     \A i, j \in DOMAIN s : i # j => s[i] # s[j]}

KeepHosts(hs, S) == SelectSeq(hs, LAMBDA h : h \in S)

\* The host sets of the priority set: hosts() lists the cluster's hosts in the
\* order they were added (ascending here), healthyHosts() is its subsequence of
\* healthy hosts.
HostSets ==
  {[hosts |-> hs, healthyHosts |-> KeepHosts(hs, S)] :
     hs \in {s \in HostSeqs : \A i, j \in DOMAIN s : i < j => s[i] < s[j]},
     S \in SUBSET Hosts}

EmptyHostSet == [hosts |-> <<>>, healthyHosts |-> <<>>]

\* The runtime's panic threshold (percent), read at every evaluation.
PanicThresholds == {0, 50, 100}

\* LoadBalancerBase::isGlobalPanic: the percentage of healthy hosts (0 for an
\* empty host set) is below the threshold.
IsGlobalPanic(hs, threshold) ==
  IF Len(hs.hosts) = 0
    THEN 0 < threshold
    ELSE 100 * Len(hs.healthyHosts) < threshold * Len(hs.hosts)

\* Faulty variant of RefreshHosts: the ring is built from the healthy hosts
\* whatever the panic policy says.
RefreshHostsHealthyOnly(panic, hs) == hs.healthyHosts

\* The host vector refresh() hands to Ring::Ring.
RefreshHosts(panic, hs) == IF panic THEN hs.hosts ELSE hs.healthyHosts

\* std::hash<std::string> and HashUtil::xxHash64 on the hash keys, in Spec: two
\* fixed functions.  Under std, replica 0 of every host hashes to 2 (entries of
\* different hosts collide) and the later replicas hash below it (the entries
\* are pushed out of order); under xx, neighbouring hosts' replicas collide.
StdHashTable ==
  [k \in HashKeys |-> (2 + k[1] * k[2] * MaxHash) % (MaxHash + 1)]
XxHashTable == [k \in HashKeys |-> (k[1] + k[2]) % (MaxHash + 1)]

\* Sizes of address strings: an IPv4 address with its port, the two sizes
\* around MaxNeededSize - 1 - IndexBufferSize, and the longest pipe path.
AddressSizes ==
  {14, MaxNeededSize - 1 - IndexBufferSize - 1, MaxNeededSize - 1 - IndexBufferSize,
   MaxAddressSize}

\* every host at an IPv4 address
ShortAddresses == [host \in Hosts |-> 14]

\* The locals of Ring::Ring: its position, the index of the host of the outer
\* loop, i, hashes_per_host, hash_key_buffer (its capacity; 0 for nullptr),
\* last_hash_key_size, offset_start, the vector ring_; written is history: the
\* number of leading bytes of the buffer the last write reached.
NoCtor ==
  [pc |-> "none", host_index |-> 0, i |-> 0, hashes_per_host |-> 0,
   hash_key_buffer |-> 0, last_hash_key_size |-> 0, offset_start |-> 0,
   written |-> 0, ring_ |-> <<>>]

(***************************************************************************)
(* Construction                                                            *)
(***************************************************************************)
NoLb == [made |-> FALSE, ring_ |-> NullRing, global_panic_ |-> FALSE]
NoResult == [called |-> FALSE, host |-> NullHost]

\* The locals of a Ring::chooseHost call: h, lowp, highp (none outside a call).
NoSearch == [h |-> 0, lowp |-> 0, highp |-> 0]

\* Faulty variant of ConstructedRing: the constructor leaves current_ring_ null.
ConstructedRingNull(config) == NullRing

\* factory_->current_ring_ = std::make_shared<Ring>(config_, {})
ConstructedRing(config) ==
  RingPtr(0, InitialGlobalPanic, <<>>, RingCtor(config, <<>>, hash_fn, sort_ties))

\* The state RingHashLoadBalancer's constructor leaves, for every variable but
\* the configuration, the hash functions and the sort.
Constructed ==
  /\ host_set = EmptyHostSet
  /\ initialized = FALSE
  /\ current_ring_ = ConstructedRing(config_)
  /\ global_panic_ = InitialGlobalPanic
  /\ mutex_ = [writer |-> NoThread, readers |-> {}]
  /\ rpc = [t \in Refreshers |-> "idle"]
  /\ rpanic = [t \in Refreshers |-> FALSE]
  /\ new_ring = [t \in Refreshers |-> NullRing]
  /\ nrings = 0
  /\ last_locker = 0
  /\ wpc = [w \in Workers |-> "idle"]
  /\ ring_to_use = [w \in Workers |-> NullRing]
  /\ lb = [w \in Workers |-> NoLb]
  /\ result = [w \in Workers |-> NoResult]
  /\ lb_healthy_panic_ = 0
  /\ search = [w \in Workers |-> NoSearch]

\* A load balancer configured with the largest minimum_ring_size of the bounds
\* and use_std_hash left to its default, under either tie order of the sort.
Init ==
  /\ config_ = Config(TRUE, TRUE, MaxMinRingSize, FALSE, TRUE)
  /\ hash_fn = [std |-> StdHashTable, xx |-> XxHashTable]
  /\ sort_ties \in {"keep", "flip"}
  /\ address_size = ShortAddresses
  /\ Constructed
  /\ t_hosts = <<>>
  /\ t_ring = NullRing
  /\ t_result = NoResult
  /\ ctor = NoCtor

(***************************************************************************)
(* RingHashLoadBalancer::initialize, the member update callback, refresh   *)
(***************************************************************************)
\* refresh() calls that have not built their ring yet
Unbuilt == {t \in Refreshers : rpc[t] \in {"eval", "build"}}

CanStartRefresh == nrings + Cardinality(Unbuilt) < MaxRefreshes

\* initialize(): addMemberUpdateCb(...), then refresh() is entered.
Initialize(t) ==
  /\ ~initialized
  /\ rpc[t] = "idle"
  /\ CanStartRefresh
  /\ initialized' = TRUE
  /\ rpc' = [rpc EXCEPT ![t] = "eval"]
  /\ UNCHANGED <<host_set, current_ring_, global_panic_, mutex_, rpanic, new_ring,
                 nrings, last_locker, wpc, ring_to_use, lb, result,
                 lb_healthy_panic_, search, env_vars, test_vars>>

\* The priority set changes its hosts on thread t and runs the member update
\* callbacks: once initialize() has registered it, the callback enters refresh().
MemberUpdate(t, hs) ==
  /\ rpc[t] = "idle"
  /\ hs # host_set
  /\ initialized => CanStartRefresh
  /\ host_set' = hs
  /\ rpc' = IF initialized THEN [rpc EXCEPT ![t] = "eval"] ELSE rpc
  /\ UNCHANGED <<initialized, current_ring_, global_panic_, mutex_, rpanic,
                 new_ring, nrings, last_locker, wpc, ring_to_use, lb, result,
                 lb_healthy_panic_, search, env_vars, test_vars>>

\* Faulty variant of RefreshEval: refresh() takes the write lock on entry, before
\* it evaluates the panic policy and builds the ring.
RefreshEvalLocked(t) ==
  /\ rpc[t] = "eval"
  /\ mutex_.writer = NoThread
  /\ mutex_.readers = {}
  /\ mutex_' = [mutex_ EXCEPT !.writer = t]
  /\ \E threshold \in PanicThresholds :
       rpanic' = [rpanic EXCEPT ![t] = IsGlobalPanic(host_set, threshold)]
  /\ rpc' = [rpc EXCEPT ![t] = "build"]
  /\ UNCHANGED <<host_set, initialized, current_ring_, global_panic_,
                 new_ring, nrings, last_locker, wpc, ring_to_use, lb, result,
                 lb_healthy_panic_, search, env_vars, test_vars>>

\* const auto& host_set = chooseHostSet(); if (isGlobalPanic(host_set, runtime_))
RefreshEval(t) ==
  /\ rpc[t] = "eval"
  /\ \E threshold \in PanicThresholds :
       rpanic' = [rpanic EXCEPT ![t] = IsGlobalPanic(host_set, threshold)]
  /\ rpc' = [rpc EXCEPT ![t] = "build"]
  /\ UNCHANGED <<host_set, initialized, current_ring_, global_panic_, mutex_,
                 new_ring, nrings, last_locker, wpc, ring_to_use, lb, result,
                 lb_healthy_panic_, search, env_vars, test_vars>>

\* new_ring = std::make_shared<Ring>(config_, host_set.hosts() or .healthyHosts())
RefreshBuild(t) ==
  /\ rpc[t] = "build"
  /\ new_ring' = [new_ring EXCEPT
                    ![t] = MakeRing(nrings + 1, rpanic[t], RefreshHosts(rpanic[t], host_set))]
  /\ nrings' = nrings + 1
  /\ rpc' = [rpc EXCEPT ![t] = "set_panic"]
  /\ UNCHANGED <<host_set, initialized, current_ring_, global_panic_, mutex_,
                 rpanic, last_locker, wpc, ring_to_use, lb, result,
                 lb_healthy_panic_, search, env_vars, test_vars>>

\* factory_->global_panic_ = true / false: written without the lock.  A read or
\* write of the bool racing with this store sees the old or the new value, which
\* is what the interleaving of this step with the others yields.
RefreshSetPanic(t) ==
  /\ rpc[t] = "set_panic"
  /\ global_panic_' = rpanic[t]
  /\ rpc' = [rpc EXCEPT ![t] = "lock"]
  /\ UNCHANGED <<host_set, initialized, current_ring_, mutex_, rpanic, new_ring,
                 nrings, last_locker, wpc, ring_to_use, lb, result,
                 lb_healthy_panic_, search, env_vars, test_vars>>

\* std::unique_lock<std::shared_timed_mutex> lock(factory_->mutex_)
RefreshLock(t) ==
  /\ rpc[t] = "lock"
  /\ mutex_.writer = NoThread
  /\ mutex_.readers = {}
  /\ mutex_' = [mutex_ EXCEPT !.writer = t]
  /\ last_locker' = new_ring[t].gen
  /\ rpc' = [rpc EXCEPT ![t] = "publish"]
  /\ UNCHANGED <<host_set, initialized, current_ring_, global_panic_, rpanic,
                 new_ring, nrings, wpc, ring_to_use, lb, result,
                 lb_healthy_panic_, search, env_vars, test_vars>>

\* factory_->current_ring_ = new_ring
RefreshPublish(t) ==
  /\ rpc[t] = "publish"
  /\ current_ring_' = new_ring[t]
  /\ rpc' = [rpc EXCEPT ![t] = "unlock"]
  /\ UNCHANGED <<host_set, initialized, global_panic_, mutex_, rpanic, new_ring,
                 nrings, last_locker, wpc, ring_to_use, lb, result,
                 lb_healthy_panic_, search, env_vars, test_vars>>

\* refresh() returns: the lock is released and the locals go out of scope.
RefreshUnlock(t) ==
  /\ rpc[t] = "unlock"
  /\ mutex_' = [mutex_ EXCEPT !.writer = NoThread]
  /\ new_ring' = [new_ring EXCEPT ![t] = NullRing]
  /\ rpanic' = [rpanic EXCEPT ![t] = FALSE]
  /\ rpc' = [rpc EXCEPT ![t] = "idle"]
  /\ UNCHANGED <<host_set, initialized, current_ring_, global_panic_, nrings,
                 last_locker, wpc, ring_to_use, lb, result, lb_healthy_panic_,
                 search, env_vars, test_vars>>

(***************************************************************************)
(* LoadBalancerFactoryImpl::create                                         *)
(***************************************************************************)
\* RingConstSharedPtr ring_to_use;
CreateCall(w) ==
  /\ wpc[w] = "idle"
  /\ ring_to_use' = [ring_to_use EXCEPT ![w] = NullRing]
  /\ wpc' = [wpc EXCEPT ![w] = "lock"]
  /\ UNCHANGED <<host_set, initialized, current_ring_, global_panic_, mutex_, rpc,
                 rpanic, new_ring, nrings, last_locker, lb, result,
                 lb_healthy_panic_, search, env_vars, test_vars>>

\* std::shared_lock<std::shared_timed_mutex> lock(mutex_)
CreateLock(w) ==
  /\ wpc[w] = "lock"
  /\ mutex_.writer = NoThread
  /\ mutex_' = [mutex_ EXCEPT !.readers = @ \cup {w}]
  /\ wpc' = [wpc EXCEPT ![w] = "read"]
  /\ UNCHANGED <<host_set, initialized, current_ring_, global_panic_, rpc, rpanic,
                 new_ring, nrings, last_locker, ring_to_use, lb, result,
                 lb_healthy_panic_, search, env_vars, test_vars>>

\* Faulty variant of RingToUse: a worker that already has a LoadBalancerImpl
\* takes that one's ring again instead of reading current_ring_.
RingToUseCached(w) == IF lb[w].made THEN lb[w].ring_ ELSE current_ring_

\* the value create() assigns to ring_to_use under the shared lock
RingToUse(w) == current_ring_

\* ring_to_use = current_ring_
CreateRead(w) ==
  /\ wpc[w] = "read"
  /\ ring_to_use' = [ring_to_use EXCEPT ![w] = RingToUse(w)]
  /\ wpc' = [wpc EXCEPT ![w] = "unlock"]
  /\ UNCHANGED <<host_set, initialized, current_ring_, global_panic_, mutex_, rpc,
                 rpanic, new_ring, nrings, last_locker, lb, result,
                 lb_healthy_panic_, search, env_vars, test_vars>>

\* the end of the block releases the shared lock
CreateUnlock(w) ==
  /\ wpc[w] = "unlock"
  /\ mutex_' = [mutex_ EXCEPT !.readers = @ \ {w}]
  /\ wpc' = [wpc EXCEPT ![w] = "make"]
  /\ UNCHANGED <<host_set, initialized, current_ring_, global_panic_, rpc, rpanic,
                 new_ring, nrings, last_locker, ring_to_use, lb, result,
                 lb_healthy_panic_, search, env_vars, test_vars>>

\* return std::make_unique<LoadBalancerImpl>(stats_, random_, ring_to_use,
\* global_panic_): global_panic_ is read here, after the lock was released.  The
\* worker keeps the new LoadBalancerImpl in place of its previous one.
CreateReturn(w) ==
  /\ wpc[w] = "make"
  /\ lb' = [lb EXCEPT ![w] = [made |-> TRUE, ring_ |-> ring_to_use[w],
                              global_panic_ |-> global_panic_]]
  /\ result' = [result EXCEPT ![w] = NoResult]
  /\ ring_to_use' = [ring_to_use EXCEPT ![w] = NullRing]
  /\ wpc' = [wpc EXCEPT ![w] = "idle"]
  /\ UNCHANGED <<host_set, initialized, current_ring_, global_panic_, mutex_, rpc,
                 rpanic, new_ring, nrings, last_locker, lb_healthy_panic_,
                 search, env_vars, test_vars>>

(***************************************************************************)
(* LoadBalancerImpl::chooseHost                                            *)
(***************************************************************************)
\* Faulty variant of SelectorRing: the LoadBalancerImpl looks up the factory's
\* current ring at every call instead of the ring it was created with.
SelectorRingLive(lbs, published, w) == published

\* the ring_ member of worker w's LoadBalancerImpl, given the workers'
\* LoadBalancerImpls and the factory's current_ring_
SelectorRing(lbs, published, w) == lbs[w].ring_

\* Faulty variant of PanicIncrement: the factory's flag is tested at every call.
PanicIncrementLive(w) == IF global_panic_ THEN 1 ELSE 0

\* if (global_panic_) stats_.lb_healthy_panic_.inc(), on the member global_panic_
PanicIncrement(w) == IF lb[w].global_panic_ THEN 1 ELSE 0

\* return ring_->chooseHost(context, random_)
LbChooseHostIn(lbs, published, w, context, random) ==
  RingChooseHost(SelectorRing(lbs, published, w).ring_, context, random)

\* what chooseHost(context) on worker w's LoadBalancerImpl returns
LbChooseHost(w, context, random) ==
  LbChooseHostIn(lb, current_ring_, w, context, random)

ChooseHost(w, context, random) ==
  /\ wpc[w] = "idle"
  /\ lb[w].made
  /\ lb_healthy_panic_ + PanicIncrement(w) <= MaxPanicCount
  /\ lb_healthy_panic_' = lb_healthy_panic_ + PanicIncrement(w)
  /\ result' = [result EXCEPT ![w] = [called |-> TRUE,
                                      host |-> LbChooseHost(w, context, random)]]
  /\ UNCHANGED <<host_set, initialized, current_ring_, global_panic_, mutex_, rpc,
                 rpanic, new_ring, nrings, last_locker, wpc, ring_to_use, lb,
                 search, env_vars, test_vars>>

Next ==
  \/ \E t \in Refreshers : Initialize(t)
  \/ \E t \in Refreshers, hs \in HostSets : MemberUpdate(t, hs)
  \/ \E t \in Refreshers : RefreshEval(t)
  \/ \E t \in Refreshers : RefreshBuild(t)
  \/ \E t \in Refreshers : RefreshSetPanic(t)
  \/ \E t \in Refreshers : RefreshLock(t)
  \/ \E t \in Refreshers : RefreshPublish(t)
  \/ \E t \in Refreshers : RefreshUnlock(t)
  \/ \E w \in Workers : CreateCall(w)
  \/ \E w \in Workers : CreateLock(w)
  \/ \E w \in Workers : CreateRead(w)
  \/ \E w \in Workers : CreateUnlock(w)
  \/ \E w \in Workers : CreateReturn(w)
  \/ \E w \in Workers, context \in Contexts :
       \E random \in Randoms(context) : ChooseHost(w, context, random)

Spec == Init /\ [][Next]_vars

\* the next step of thread t inside refresh()
RefreshStep(t) ==
  \/ RefreshEval(t)
  \/ RefreshBuild(t)
  \/ RefreshSetPanic(t)
  \/ RefreshLock(t)
  \/ RefreshPublish(t)
  \/ RefreshUnlock(t)

\* the next step of worker w inside create()
CreateStep(w) ==
  \/ CreateLock(w)
  \/ CreateRead(w)
  \/ CreateUnlock(w)
  \/ CreateReturn(w)

\* SpecFair: the refresh() and create() calls of Spec (the one membership change
\* is the arrival of the cluster's hosts, all healthy; no chooseHost calls)
\* under fair scheduling of the threads.  A thread inside refresh() or create() whose next step stays
\* possible takes it.  A thread blocked on mutex_ can proceed only while the
\* lock is free for it; std::shared_timed_mutex promises a waiter nothing more
\* (no order among waiters, no preference between readers and writers), so
\* weak fairness is all the lock steps get.  Calls of initialize(), of the
\* member update callback and of create() are the callers' choice.
NextFair ==
  \/ \E t \in Refreshers : Initialize(t)
  \/ \E t \in Refreshers :
       \E hs \in {x \in HostSets : Len(x.healthyHosts) = MaxHosts} :
         MemberUpdate(t, hs)
  \/ \E t \in Refreshers : RefreshStep(t)
  \/ \E w \in Workers : CreateCall(w)
  \/ \E w \in Workers : CreateStep(w)

SpecFair ==
  /\ Init
  /\ [][NextFair]_vars
  /\ \A t \in Refreshers : WF_vars(RefreshStep(t))
  /\ \A w \in Workers : WF_vars(CreateStep(w))

(***************************************************************************)
(* SpecRing: Ring::Ring and Ring::chooseHost on their own.  The host       *)
(* sequence, the configuration, the sort's tie order and the values of the *)
(* configured hash function on the hash keys the construction uses are     *)
(* drawn freely; the load balancer around them stays as constructed.       *)
(***************************************************************************)
NoTestResult ==
  [called |-> FALSE, context |-> Context(FALSE, FALSE, 0), h |-> 0,
   host |-> NullHost, key_evaluated |-> FALSE, random_drawn |-> FALSE]

\* the hash keys Ring::Ring computes for these hosts under this configuration
NeededKeys(config, hosts) ==
  IF hosts = <<>>
    THEN {}
    ELSE {HashKey(hosts[j], i) :
            j \in DOMAIN hosts,
            i \in 0 .. HashesPerHost(Len(hosts), MinRingSize(config)) - 1}

\* a hash function that takes the values f on the keys in use
HashTable(f) == [k \in HashKeys |-> IF k \in DOMAIN f THEN f[k] ELSE 0]

InitRing ==
  /\ config_ \in Configs
  /\ sort_ties \in {"keep", "flip"}
  /\ t_hosts \in HostSeqs
  /\ \E f \in [NeededKeys(config_, t_hosts) -> Hashes] :
       hash_fn = IF UseStdHash(config_)
                   THEN [std |-> HashTable(f), xx |-> XxHashTable]
                   ELSE [std |-> StdHashTable, xx |-> HashTable(f)]
  /\ address_size = ShortAddresses
  /\ Constructed
  /\ t_ring = NullRing
  /\ t_result = NoTestResult
  /\ ctor = NoCtor

\* Ring ring(config, hosts)
TestBuild ==
  /\ t_ring.null
  /\ t_ring' = MakeRing(1, FALSE, t_hosts)
  /\ UNCHANGED <<t_hosts, t_result, ctor, conc_vars, env_vars>>

\* ring.chooseHost(context, random).  The method is const: a call leaves the
\* ring as it was, so one call per ring reaches every result.
TestChoose(context, random) ==
  /\ ~t_ring.null
  /\ ~t_result.called
  /\ t_result' = [called |-> TRUE,
                  context |-> context,
                  h |-> EffectiveKey(context, random),
                  host |-> RingChooseHost(t_ring.ring_, context, random),
                  key_evaluated |-> KeyEvaluated(t_ring.ring_, context),
                  random_drawn |-> RandomDrawn(t_ring.ring_, context)]
  /\ UNCHANGED <<t_hosts, t_ring, ctor, conc_vars, env_vars>>

NextRing ==
  \/ TestBuild
  \/ \E context \in Contexts :
       \E random \in Randoms(context) : TestChoose(context, random)

SpecRing == InitRing /\ [][NextRing]_vars

(***************************************************************************)
(* SpecSearch: the load balancer after initialize(), over every host       *)
(* vector, configuration and hash function, with Ring::chooseHost run one  *)
(* pass of its loop at a time beside the refresh() of a membership change  *)
(* and the worker's create() calls.                                        *)
(***************************************************************************)
\* Faulty variant of HighpBelow: highp is unsigned, so 0 - 1 wraps to the
\* largest value.
HighpBelowUnsigned(midp) == IF midp = 0 THEN 2147483647 ELSE midp - 1

\* highp = midp - 1, on int64_t
HighpBelow(midp) == midp - 1

\* LoadBalancerImpl::chooseHost up to the loop of Ring::chooseHost: the panic
\* counter, the test ring_.empty(), the key h, lowp = 0, highp = ring_.size().
ChooseHostEnter(w, context, random) ==
  /\ wpc[w] = "idle"
  /\ lb[w].made
  /\ lb_healthy_panic_ + PanicIncrement(w) <= MaxPanicCount
  /\ lb_healthy_panic_' = lb_healthy_panic_ + PanicIncrement(w)
  /\ IF lb[w].ring_.ring_ = <<>>
       THEN /\ result' = [result EXCEPT ![w] = [called |-> TRUE, host |-> NullHost]]
            /\ search' = [search EXCEPT ![w] = NoSearch]
            /\ wpc' = wpc
       ELSE /\ result' = [result EXCEPT ![w] = NoResult]
            /\ search' = [search EXCEPT ![w] =
                            [h |-> EffectiveKey(context, random),
                             lowp |-> 0,
                             highp |-> Len(lb[w].ring_.ring_)]]
            /\ wpc' = [wpc EXCEPT ![w] = "search"]
  /\ UNCHANGED <<host_set, initialized, current_ring_, global_panic_, mutex_, rpc,
                 rpanic, new_ring, nrings, last_locker, ring_to_use, lb,
                 env_vars, test_vars>>

\* a return statement of Ring::chooseHost: the locals go out of scope
SearchReturn(w, host) ==
  /\ result' = [result EXCEPT ![w] = [called |-> TRUE, host |-> host]]
  /\ search' = [search EXCEPT ![w] = NoSearch]
  /\ wpc' = [wpc EXCEPT ![w] = "idle"]

\* One pass of while (true) { ... }.  ring_[midp] with midp outside the vector
\* is undefined behaviour: the call then returns anything.
SearchIterate(w) ==
  /\ wpc[w] = "search"
  /\ LET ring == lb[w].ring_.ring_
         midp == Half(search[w].lowp + search[w].highp)
     IN IF midp = Len(ring)
          THEN SearchReturn(w, WrapHost(ring))
          ELSE IF midp < 0 \/ midp > Len(ring)
            THEN \E host \in Hosts \cup {NullHost} : SearchReturn(w, host)
            ELSE LET midval == ring[midp + 1].hash_
                     midval1 == IF midp = 0 THEN 0 ELSE ring[midp].hash_
                     lowp == IF midval < search[w].h THEN midp + 1 ELSE search[w].lowp
                     highp == IF midval < search[w].h
                                THEN search[w].highp
                                ELSE HighpBelow(midp)
                 IN IF SlotHolds(search[w].h, midval, midval1)
                      THEN SearchReturn(w, ring[midp + 1].host_)
                      ELSE IF lowp > highp
                        THEN SearchReturn(w, WrapHost(ring))
                        ELSE /\ search' = [search EXCEPT
                                             ![w] = [@ EXCEPT !.lowp = lowp,
                                                              !.highp = highp]]
                             /\ UNCHANGED <<result, wpc>>
  /\ UNCHANGED <<host_set, initialized, current_ring_, global_panic_, mutex_, rpc,
                 rpanic, new_ring, nrings, last_locker, ring_to_use, lb,
                 lb_healthy_panic_, env_vars, test_vars>>

\* initialize() has returned on a cluster of healthy hosts: its refresh() was
\* not in panic and has published the ring over them.
InitSearch ==
  /\ config_ \in Configs
  /\ sort_ties \in {"keep", "flip"}
  /\ host_set \in {hs \in HostSets : hs.hosts # <<>> /\ hs.healthyHosts = hs.hosts}
  /\ \E f \in [NeededKeys(config_, host_set.hosts) -> Hashes] :
       hash_fn = IF UseStdHash(config_)
                   THEN [std |-> HashTable(f), xx |-> XxHashTable]
                   ELSE [std |-> StdHashTable, xx |-> HashTable(f)]
  /\ initialized = TRUE
  /\ current_ring_ = MakeRing(1, FALSE, RefreshHosts(FALSE, host_set))
  /\ global_panic_ = FALSE
  /\ mutex_ = [writer |-> NoThread, readers |-> {}]
  /\ rpc = [t \in Refreshers |-> "idle"]
  /\ rpanic = [t \in Refreshers |-> FALSE]
  /\ new_ring = [t \in Refreshers |-> NullRing]
  /\ nrings = 1
  /\ last_locker = 1
  /\ wpc = [w \in Workers |-> "idle"]
  /\ ring_to_use = [w \in Workers |-> NullRing]
  /\ lb = [w \in Workers |-> NoLb]
  /\ result = [w \in Workers |-> NoResult]
  /\ lb_healthy_panic_ = 0
  /\ search = [w \in Workers |-> NoSearch]
  /\ address_size = ShortAddresses
  /\ t_hosts = <<>>
  /\ t_ring = NullRing
  /\ t_result = NoTestResult
  /\ ctor = NoCtor

\* The one membership change here: the cluster loses all its hosts.
NextSearch ==
  \/ \E t \in Refreshers : MemberUpdate(t, EmptyHostSet)
  \/ \E t \in Refreshers : RefreshEval(t)
  \/ \E t \in Refreshers : RefreshBuild(t)
  \/ \E t \in Refreshers : RefreshSetPanic(t)
  \/ \E t \in Refreshers : RefreshLock(t)
  \/ \E t \in Refreshers : RefreshPublish(t)
  \/ \E t \in Refreshers : RefreshUnlock(t)
  \/ \E w \in Workers : CreateCall(w)
  \/ \E w \in Workers : CreateLock(w)
  \/ \E w \in Workers : CreateRead(w)
  \/ \E w \in Workers : CreateUnlock(w)
  \/ \E w \in Workers : CreateReturn(w)
  \/ \E w \in Workers, context \in Contexts :
       \E random \in Randoms(context) : ChooseHostEnter(w, context, random)
  \/ \E w \in Workers : SearchIterate(w)

SpecSearch == InitSearch /\ [][NextSearch]_vars

(***************************************************************************)
(* SpecBuffer: Ring::Ring run one statement group at a time, with the      *)
(* scratch buffer of the hash keys, over every host sequence,              *)
(* configuration and assignment of address sizes to the hosts.             *)
(***************************************************************************)
\* what StringUtil::itoa returns: the number of decimal digits of i
RECURSIVE Digits(_)
Digits(i) == IF i < 10 THEN 1 ELSE 1 + Digits(i \div 10)

\* const uint64_t needed_size = std::min(128UL, address_string.size() + 1 + 32)
NeededSize(size) == Min(MaxNeededSize, size + 1 + IndexBufferSize)

\* Ring::Ring up to the loop over the hosts: the return on no hosts,
\* hashes_per_host, hash_key_buffer = nullptr, last_hash_key_size = 0.
CtorBegin ==
  /\ ctor.pc = "none"
  /\ IF t_hosts = <<>>
       THEN /\ ctor' = [NoCtor EXCEPT !.pc = "done"]
            /\ t_ring' = RingPtr(1, FALSE, t_hosts, <<>>)
       ELSE /\ ctor' = [NoCtor EXCEPT
                          !.pc = "host",
                          !.host_index = 1,
                          !.hashes_per_host =
                            HashesPerHost(Len(t_hosts), MinRingSize(config_))]
            /\ t_ring' = t_ring
  /\ UNCHANGED <<t_hosts, t_result, conc_vars, env_vars>>

\* The head of the loop body for one host: needed_size, the reallocation of
\* the buffer when there is none or it is smaller, memcpy of the address, '_'.
CtorHost ==
  /\ ctor.pc = "host"
  /\ LET size == address_size[t_hosts[ctor.host_index]]
         needed_size == NeededSize(size)
         realloc == ctor.hash_key_buffer = 0 \/ ctor.last_hash_key_size < needed_size
     IN ctor' = [ctor EXCEPT
                   !.pc = "replica",
                   !.i = 0,
                   !.hash_key_buffer = IF realloc THEN needed_size ELSE @,
                   !.last_hash_key_size = IF realloc THEN needed_size ELSE @,
                   !.offset_start = size + 1,
                   !.written = size + 1]
  /\ UNCHANGED <<t_hosts, t_ring, t_result, conc_vars, env_vars>>

\* One pass of for (i = 0; i < hashes_per_host; i++): itoa writes the digits of
\* i at offset_start, the key is hashed and the entry pushed.
CtorReplica ==
  /\ ctor.pc = "replica"
  /\ LET host == t_hosts[ctor.host_index]
         total_hash_key_len == ctor.offset_start + Digits(ctor.i)
         entry == [hash_ |-> HashOf(config_, hash_fn, HashKey(host, ctor.i)),
                   host_ |-> host]
         last == ctor.i + 1 >= ctor.hashes_per_host
     IN ctor' = [ctor EXCEPT
                   !.pc = IF ~last THEN "replica"
                          ELSE IF ctor.host_index < Len(t_hosts) THEN "host"
                          ELSE "sort",
                   !.i = @ + 1,
                   !.host_index = IF last /\ ctor.host_index < Len(t_hosts)
                                    THEN @ + 1 ELSE @,
                   !.written = total_hash_key_len,
                   !.ring_ = Append(@, entry)]
  /\ UNCHANGED <<t_hosts, t_ring, t_result, conc_vars, env_vars>>

\* std::sort(ring_.begin(), ring_.end(), ...), and the constructor returns
CtorSort ==
  /\ ctor.pc = "sort"
  /\ ctor' = [ctor EXCEPT !.pc = "done", !.ring_ = SortRing(@, sort_ties)]
  /\ t_ring' = RingPtr(1, FALSE, t_hosts, SortRing(ctor.ring_, sort_ties))
  /\ UNCHANGED <<t_hosts, t_result, conc_vars, env_vars>>

InitBuffer ==
  /\ config_ \in Configs
  /\ hash_fn = [std |-> StdHashTable, xx |-> XxHashTable]
  /\ sort_ties \in {"keep", "flip"}
  /\ address_size \in [Hosts -> AddressSizes]
  /\ t_hosts \in HostSeqs
  /\ Constructed
  /\ t_ring = NullRing
  /\ t_result = NoTestResult
  /\ ctor = NoCtor

NextBuffer ==
  \/ CtorBegin
  \/ CtorHost
  \/ CtorReplica
  \/ CtorSort

SpecBuffer == InitBuffer /\ [][NextBuffer]_vars

(***************************************************************************)
(* Properties                                                              *)
(***************************************************************************)
IsSorted(ring) ==
  \A i, j \in DOMAIN ring : i < j => ring[i].hash_ <= ring[j].hash_

\* the host of the lowest-index entry whose hash is >= h, the host of the first
\* entry when there is none
ClockwiseOwner(ring, h) ==
  LET ge == {i \in DOMAIN ring : ring[i].hash_ >= h}
  IN IF ge = {}
       THEN ring[1].host_
       ELSE ring[CHOOSE i \in ge : \A k \in ge : i <= k].host_

CeilDiv(a, b) == (a + b - 1) \div b

\* C3: on every non-empty ring (duplicate hashes and hash 0 included) and for
\* every key (0 and keys above the largest entry hash included), Ring::chooseHost
\* returns the host of the lowest-index entry whose hash is >= the key, and the
\* host at index 0 when every entry's hash is below the key.
C3_ChooseHostIsClockwiseOwner ==
  (t_result.called /\ t_ring.ring_ # <<>>) =>
    t_result.host = ClockwiseOwner(t_ring.ring_, t_result.h)

\* A lookup that wrapped: the key is above every entry hash of a ring that holds
\* a duplicated hash and hash 0, whose first and last entries are of different
\* hosts.
C3_Witness ==
  /\ t_result.called
  /\ Len(t_ring.ring_) >= 3
  /\ \A i \in DOMAIN t_ring.ring_ : t_ring.ring_[i].hash_ < t_result.h
  /\ t_ring.ring_[1].hash_ = 0
  /\ \E i \in DOMAIN t_ring.ring_ :
       i > 1 /\ t_ring.ring_[i].hash_ = t_ring.ring_[i - 1].hash_
  /\ t_ring.ring_[1].host_ # t_ring.ring_[Len(t_ring.ring_)].host_
  /\ t_result.host = t_ring.ring_[1].host_

\* C8: a ring built from n >= 1 hosts with minimum ring size S >= 1 has exactly
\* n * max(1, ceil(S / n)) entries, which is at least S.
C8_RingSize ==
  (~t_ring.null /\ t_hosts # <<>>) =>
    LET n == Len(t_hosts)
        S == MinRingSize(config_)
    IN /\ Len(t_ring.ring_) = n * Max(1, CeilDiv(S, n))
       /\ Len(t_ring.ring_) >= S

\* A ring built where S is not a multiple of n and n < S.
C8_Witness ==
  /\ ~t_ring.null
  /\ Len(t_hosts) = 2
  /\ MinRingSize(config_) = 3
  /\ Len(t_ring.ring_) = 4

AllRefreshIdle == \A t \in Refreshers : rpc[t] = "idle"

\* C1: the (ring, panic flag) pair of every LoadBalancerImpl comes from one
\* refresh() call (or is the pair the constructor left): the captured flag is the
\* one computed by the refresh() that built the captured ring.  (Two refresh()
\* calls that computed the same flag are not told apart here, so a violation of
\* this is a pair that is observably mixed.)
C1_SelectorPairFromOneRefresh ==
  \A w \in Workers : lb[w].made => lb[w].global_panic_ = lb[w].ring_.panic

\* C2: current_ring_ is never null and no LoadBalancerImpl holds a null ring; a
\* LoadBalancerImpl that holds the constructor's ring holds an empty ring, and
\* chooseHost through it returns no host, for every context.
C2_RingNeverNull ==
  /\ ~current_ring_.null
  /\ \A w \in Workers :
       lb[w].made =>
         /\ ~lb[w].ring_.null
         /\ lb[w].ring_.gen = 0 =>
              /\ lb[w].ring_.ring_ = <<>>
              /\ result[w].called => result[w].host = NullHost
              /\ \A context \in Contexts, random \in Hashes :
                   LbChooseHost(w, context, random) = NullHost

\* chooseHost has returned no host through a LoadBalancerImpl created before the
\* first refresh() published, while that refresh() holds the write lock with a
\* non-empty ring in hand.
C2_Witness ==
  \E w \in Workers, t \in Refreshers :
    /\ lb[w].made /\ lb[w].ring_.gen = 0
    /\ result[w].called /\ result[w].host = NullHost
    /\ rpc[t] = "publish" /\ new_ring[t].ring_ # <<>>
    /\ current_ring_.gen = 0

\* the hosts a ring's entries refer to
RingHosts(ring) == {ring[i].host_ : i \in DOMAIN ring}

\* C4: a refresh() whose isGlobalPanic() is true builds its ring from hosts(),
\* stores true in global_panic_ and publishes that ring; one whose
\* isGlobalPanic() is false builds from healthyHosts(), stores false and
\* publishes that ring.
C4_RefreshFollowsPanicPolicy ==
  [][\A t \in Refreshers :
       /\ (rpc[t] = "build" /\ rpc'[t] = "set_panic") =>
            LET from == IF rpanic[t] THEN host_set.hosts ELSE host_set.healthyHosts
            IN /\ new_ring'[t].hosts = from
               /\ new_ring'[t].panic = rpanic[t]
               /\ RingHosts(new_ring'[t].ring_) = Range(from)
       /\ (rpc[t] = "set_panic" /\ rpc'[t] = "lock") =>
            global_panic_' = new_ring[t].panic
       /\ (rpc[t] = "publish" /\ rpc'[t] = "unlock") =>
            current_ring_' = new_ring[t]]_vars

\* A refresh() in panic has returned: the published ring covers both hosts of a
\* host set with no healthy host, and the flag is true.
C4_Witness ==
  /\ AllRefreshIdle
  /\ current_ring_.panic /\ global_panic_
  /\ Len(host_set.hosts) = 2 /\ host_set.healthyHosts = <<>>
  /\ current_ring_.hosts = host_set.hosts
  /\ RingHosts(current_ring_.ring_) = Range(host_set.hosts)

\* C5: once every refresh() has returned, current_ring_ and global_panic_ are
\* the ring and the flag of the refresh() that took the write lock last.
C5_LastLockerWins ==
  (AllRefreshIdle /\ nrings > 0) =>
    /\ current_ring_.gen = last_locker
    /\ global_panic_ = current_ring_.panic

\* C6: a chooseHost call increments lb_healthy_panic_ by exactly one when the
\* LoadBalancerImpl's own flag is true and leaves it alone when that flag is
\* false, whatever factory_->global_panic_ has become and whatever is returned;
\* nothing else changes the counter.  (A step of an idle worker that changes
\* its result is a chooseHost call; so is every step that changes the counter.)
C6_PanicCounter ==
  [][/\ \A w \in Workers :
          (wpc[w] = "idle" /\ result'[w] # result[w]) =>
            lb_healthy_panic_' =
              lb_healthy_panic_ + (IF lb[w].global_panic_ THEN 1 ELSE 0)
     /\ lb_healthy_panic_' # lb_healthy_panic_ =>
          \E w \in Workers :
            /\ lb[w].made /\ lb[w].global_panic_ /\ wpc[w] = "idle"
            /\ result'[w].called
            /\ lb_healthy_panic_' = lb_healthy_panic_ + 1]_vars

\* A call through a LoadBalancerImpl in panic returned no host from an empty
\* ring and was counted.
C6_Witness ==
  \E w \in Workers :
    /\ lb[w].made /\ lb[w].global_panic_ /\ lb[w].ring_.ring_ = <<>>
    /\ result[w].called /\ result[w].host = NullHost
    /\ lb_healthy_panic_ = 1

\* C7: a LoadBalancerImpl's (ring_, global_panic_) never changes while the
\* worker keeps it, and what chooseHost returns through it for a given key is
\* the same before and after every step of every thread.
C7_SelectorSnapshotFixed ==
  [][\A w \in Workers :
       (lb[w].made /\ ~(wpc[w] = "make" /\ wpc'[w] = "idle")) =>
         /\ lb'[w] = lb[w]
         /\ \A k \in Hashes :
              LbChooseHostIn(lb', current_ring_', w, Context(TRUE, TRUE, k), 0)
                = LbChooseHostIn(lb, current_ring_, w, Context(TRUE, TRUE, k), 0)]_vars

\* chooseHost has returned a host through a LoadBalancerImpl that holds the
\* first refresh()'s ring after a second refresh() has published a different
\* ring.
C7_Witness ==
  \E w \in Workers :
    /\ lb[w].made /\ lb[w].ring_.gen = 1 /\ lb[w].ring_.ring_ # <<>>
    /\ current_ring_.gen = 2 /\ current_ring_.ring_ # lb[w].ring_.ring_
    /\ AllRefreshIdle
    /\ result[w].called /\ result[w].host # NullHost

\* C9: every ring that is published, about to be published, being captured or
\* held by a LoadBalancerImpl is sorted ascending by hash.
C9_RingsSorted ==
  /\ IsSorted(current_ring_.ring_)
  /\ \A t \in Refreshers : IsSorted(new_ring[t].ring_)
  /\ \A w \in Workers : IsSorted(ring_to_use[w].ring_) /\ IsSorted(lb[w].ring_.ring_)

\* A LoadBalancerImpl holds the published ring, whose entries were pushed in an
\* order that was not sorted.
C9_Witness ==
  \E w \in Workers :
    /\ lb[w].made /\ lb[w].ring_ = current_ring_
    /\ Len(current_ring_.ring_) >= 3
    /\ ~IsSorted(PushHosts(<<>>, current_ring_.hosts, 1,
                           HashesPerHost(Len(current_ring_.hosts), MinRingSize(config_)),
                           config_, hash_fn))

\* C10: through a LoadBalancerImpl whose ring was built from a non-empty host
\* vector, chooseHost returns, for every key and for an absent key with every
\* random value, a non-null host that is in that host vector.
C10_HostFromRingInput ==
  \A w \in Workers :
    (lb[w].made /\ lb[w].ring_.hosts # <<>>) =>
      /\ result[w].called => result[w].host \in Range(lb[w].ring_.hosts)
      /\ \A context \in Contexts, random \in Hashes :
           LbChooseHost(w, context, random) \in Range(lb[w].ring_.hosts)

\* chooseHost returned the one host of the held ring while a refresh() holds
\* the write lock to publish a ring over a different host.
C10_Witness ==
  \E w \in Workers, t \in Refreshers :
    /\ lb[w].made /\ Len(lb[w].ring_.hosts) = 1
    /\ result[w].called /\ result[w].host = lb[w].ring_.hosts[1]
    /\ rpc[t] = "publish"
    /\ new_ring[t].hosts # <<>>
    /\ lb[w].ring_.hosts[1] \notin Range(new_ring[t].hosts)

\* C11: a ring built from an empty host sequence has zero entries, and
\* Ring::chooseHost on it returns no host (a null pointer, a normal return) for
\* every key and for an absent key, having neither evaluated the context's hash
\* key nor drawn a random value.
C11_EmptyRingNoHost ==
  (~t_ring.null /\ t_hosts = <<>>) =>
    /\ Len(t_ring.ring_) = 0
    /\ t_result.called =>
         /\ t_result.host = NullHost
         /\ ~t_result.key_evaluated
         /\ ~t_result.random_drawn

\* chooseHost was called on the empty ring with a context that has no hash key.
C11_Witness ==
  /\ ~t_ring.null /\ t_hosts = <<>>
  /\ t_result.called
  /\ t_result.context = Context(TRUE, FALSE, 0)
  /\ t_result.host = NullHost

\* C12: a create() that copies current_ring_ when every refresh() call has
\* returned (so after the return of the last one, which is the one that held the
\* write lock last) copies the ring that refresh() built, and the
\* LoadBalancerImpl it returns holds the ring it copied.  The copy is always of
\* the ring published last, never of an older one.
C12_CreateAfterRefreshCapturesItsRing ==
  [][\A w \in Workers :
       /\ (wpc[w] = "read" /\ wpc'[w] = "unlock") =>
            /\ ring_to_use'[w] = current_ring_
            /\ (AllRefreshIdle /\ nrings > 0) =>
                 ring_to_use'[w].gen = last_locker
       /\ (wpc[w] = "make" /\ wpc'[w] = "idle") =>
            /\ lb'[w].made
            /\ lb'[w].ring_ = ring_to_use[w]]_vars

\* Two refresh() calls overlapped and the one that built its ring first took
\* the lock last; after both returned, a worker that held a LoadBalancerImpl on
\* an older ring is inside create() with that call's ring copied.
C12_Witness ==
  \E w \in Workers :
    /\ AllRefreshIdle /\ nrings = 2 /\ last_locker = 1
    /\ wpc[w] = "make"
    /\ ring_to_use[w].gen = 1 /\ ring_to_use[w].ring_ # <<>>
    /\ lb[w].made /\ lb[w].ring_.gen # 1

\* C14: every access to current_ring_ and global_panic_ is made with the lock
\* held: a refresh() that is about to write the flag or the ring holds the write
\* lock, a create() that is about to read the ring or the flag holds the read
\* lock; so a thread about to write the flag never coexists with another thread
\* about to read or write it.
C14_SharedStateLockProtected ==
  /\ \A t \in Refreshers :
       rpc[t] \in {"set_panic", "publish"} => mutex_.writer = t
  /\ \A w \in Workers :
       wpc[w] \in {"read", "make"} => w \in mutex_.readers
  /\ \A t \in Refreshers :
       rpc[t] = "set_panic" =>
         /\ \A u \in Refreshers \ {t} : rpc[u] # "set_panic"
         /\ \A w \in Workers : wpc[w] # "make"

\* C15: refresh() has evaluated the panic policy and built its complete ring
\* when it asks for the write lock; the write lock is held only over the
\* assignment to current_ring_ and the read lock only over its copy; a thread
\* that is evaluating the policy, constructing a ring or able to run chooseHost
\* does not hold the lock.
C15_BuildAndSearchOutsideLock ==
  /\ \A t \in Refreshers :
       /\ mutex_.writer = t => rpc[t] \in {"publish", "unlock"}
       /\ rpc[t] \in {"eval", "build"} => mutex_.writer # t /\ new_ring[t].null
       /\ rpc[t] \in {"lock", "publish", "unlock"} =>
            /\ ~new_ring[t].null
            /\ new_ring[t].panic = rpanic[t]
            /\ new_ring[t].ring_ =
                 RingCtor(config_, new_ring[t].hosts, hash_fn, sort_ties)
  /\ \A w \in Workers :
       /\ w \in mutex_.readers => wpc[w] \in {"read", "unlock"}
       /\ wpc[w] = "idle" => w \notin mutex_.readers
  /\ mutex_.writer # NoThread => mutex_.readers = {}

\* One refresh() is constructing a non-empty ring while another holds the write
\* lock to publish, and the worker has run chooseHost on its LoadBalancerImpl.
C15_Witness ==
  \E t, u \in Refreshers, w \in Workers :
    /\ rpc[t] = "build" /\ RefreshHosts(rpanic[t], host_set) # <<>>
    /\ rpc[u] = "publish" /\ mutex_.writer = u
    /\ wpc[w] = "idle" /\ lb[w].made /\ result[w].called

\* the other order std::sort may leave entries of equal hash in
OtherTies(ties) == IF ties = "keep" THEN "flip" ELSE "keep"

\* C16: the host chooseHost returns does not depend on how entries of equal
\* hash are ordered among themselves: the ring sorted from the same entries
\* with the ties the other way round returns the same host for the same key.
C16_TieOrderIndependence ==
  (t_result.called /\ t_ring.ring_ # <<>>) =>
    LET other == RingCtor(config_, t_hosts, hash_fn, OtherTies(sort_ties))
    IN /\ IsSorted(other) /\ IsSorted(t_ring.ring_)
       /\ t_result.host = RingChooseHost(other, t_result.context, t_result.h)

\* the indices of the entries of a ring that refer to a host
EntriesOf(ring, host) == {i \in DOMAIN ring : ring[i].host_ = host}

\* C17: in a ring built from a non-empty sequence of distinct hosts, every input
\* host has exactly hashes_per_host entries, the same number for every host, and
\* they are the entries of its replica indices 0 .. hashes_per_host - 1: for
\* every hash value, as many entries of the host carry it as replica indices of
\* the host hash to it.  No entry refers to anything but an input host.
C17_EntriesPerHost ==
  (~t_ring.null /\ t_hosts # <<>>) =>
    LET hashes_per_host == HashesPerHost(Len(t_hosts), MinRingSize(config_))
    IN /\ \A host \in Range(t_hosts) :
            /\ Cardinality(EntriesOf(t_ring.ring_, host)) = hashes_per_host
            /\ \A v \in Hashes :
                 Cardinality({i \in EntriesOf(t_ring.ring_, host) :
                                t_ring.ring_[i].hash_ = v})
                   = Cardinality({i \in 0 .. hashes_per_host - 1 :
                                    HashOf(config_, hash_fn, HashKey(host, i)) = v})
       /\ \A i \in DOMAIN t_ring.ring_ : t_ring.ring_[i].host_ \in Range(t_hosts)

\* A ring of two hosts with two replicas each, whose sort interleaved the
\* entries of the two hosts and where the two replicas of a host hash apart.
C17_Witness ==
  /\ ~t_ring.null /\ Len(t_hosts) = 2
  /\ HashesPerHost(Len(t_hosts), MinRingSize(config_)) = 2
  /\ Len(t_ring.ring_) = 4
  /\ t_ring.ring_[1].host_ # t_ring.ring_[2].host_
  /\ t_ring.ring_[2].host_ # t_ring.ring_[3].host_
  /\ t_ring.ring_[1].hash_ < t_ring.ring_[3].hash_

\* what holds of a worker inside the loop of Ring::chooseHost
SearchInBounds(w) ==
  wpc[w] = "search" =>
    LET ring == lb[w].ring_.ring_
        midp == Half(search[w].lowp + search[w].highp)
    IN /\ ring # <<>>
       /\ 0 <= search[w].lowp /\ search[w].lowp <= search[w].highp
       /\ search[w].highp <= Len(ring)
       /\ 0 <= midp /\ midp <= Len(ring)
       /\ w \notin mutex_.readers
       /\ ENABLED SearchIterate(w)

\* C18: the loop of Ring::chooseHost ends with a result on every ring and key:
\* every pass either returns (the host the whole search is defined to return)
\* or strictly narrows highp - lowp, which stays >= 0 inside the loop; midp
\* stays within 0 .. ring_.size(), so ring_[midp] (reached only when
\* midp # ring_.size()) and ring_[midp - 1] (only when midp # 0) are inside the
\* ring; and a pass is always able to run, whoever holds mutex_, and leaves
\* mutex_ alone.
C18_SearchTerminatesInBoundsLockFree ==
  /\ [](\A w \in Workers : SearchInBounds(w))
  /\ [][\A w \in Workers :
          /\ (wpc[w] = "search" /\ wpc'[w] = "search" /\ search'[w] # search[w]) =>
               search'[w].highp - search'[w].lowp
                 < search[w].highp - search[w].lowp
          /\ (wpc[w] = "search" /\ wpc'[w] = "idle") =>
               /\ result'[w].called
               /\ result'[w].host =
                    RingChooseHost(lb[w].ring_.ring_,
                                   Context(TRUE, TRUE, search[w].h), 0)
          /\ (wpc[w] = "search" /\ (search'[w] # search[w] \/ wpc'[w] # wpc[w])) =>
               mutex_' = mutex_]_vars

\* A call on a ring of four entries is two passes into its loop, its key above
\* every hash of the ring, while a refresh() holds the write lock.
C18_Witness ==
  \E w \in Workers :
    /\ wpc[w] = "search"
    /\ Len(lb[w].ring_.ring_) = 4
    /\ search[w].lowp = 4 /\ search[w].highp = 4
    /\ mutex_.writer # NoThread

C20_BufferHoldsKey ==
  /\ ctor.written <= ctor.hash_key_buffer
  /\ ctor.pc = "replica" =>
       ctor.hash_key_buffer
         >= address_size[t_hosts[ctor.host_index]] + 1 + IndexBufferSize

\* the stepwise constructor builds the ring RingCtor defines
CtorAgrees ==
  ctor.pc = "done" =>
    /\ ~t_ring.null
    /\ t_ring.ring_ = RingCtor(config_, t_hosts, hash_fn, sort_ties)

====
